---- MODULE Spec2Model ----
(***************************************************************************)
(* Model of src/webserver/database/execute_queries.rs: the lazy stream of  *)
(* DbItem produced by stream_query_results over a ParsedSqlFile, with the  *)
(* connection that take_connection acquires once and holds for the run,    *)
(* the request variables that a SetVariable statement mutates, and the     *)
(* consumer that polls (or drops) the stream.                              *)
(***************************************************************************)
EXTENDS Integers, Sequences, FiniteSets, TLC

(* ------------------------------ bounds -------------------------------- *)

\* Longest ParsedSqlFile.statements explored.
MaxPlanLen == 2

\* db.connection.size(): connections the pool can lend at once.
PoolSize == 1

\* Longest cause chain of a stored parse error explored.
MaxChainLen == 2

(* ------------------------------ requests ------------------------------ *)

\* The requests (runs of stream_query_results) that may be in flight.
Runs == {"r1", "r2"}

None == "None"
Some == "Some"

\* SingleOrVec
Single(v) == [tag |-> "Single", val |-> v]
Vec(v) == [tag |-> "Vec", val |-> v]

EmptyVars == [n \in {} |-> Single("a")]

\* RequestInfo: the two variable maps the run borrows mutably.
RequestInfo(g, p) == [get_variables |-> g, post_variables |-> p]

\* The request contexts a run may start from.
Requests ==
    { RequestInfo(EmptyVars, EmptyVars),
      RequestInfo([n \in {"x"} |-> Vec("a,b")], [n \in {"x"} |-> Single("b")]) }

(* ------------------------------ statements ---------------------------- *)

\* StmtParam: a parameter reference.  Cookie stands for the references that
\* are no request variable; Func for a pseudo-function whose evaluation can fail.
Get(n) == [p |-> "Get", name |-> n]
Post(n) == [p |-> "Post", name |-> n]
GetOrPost(n) == [p |-> "GetOrPost", name |-> n]
Cookie(n) == [p |-> "Cookie", name |-> n]
Func(n) == [p |-> "Func", name |-> n]

NoParam == Cookie("-")

\* ParsedStatement, one record shape for the five variants.
CsvImport == [kind |-> "CsvImport", params |-> <<>>, variable |-> NoParam, err |-> <<>>]
StmtWithParams(ps) == [kind |-> "StmtWithParams", params |-> ps, variable |-> NoParam, err |-> <<>>]
SetVariable(var, ps) == [kind |-> "SetVariable", params |-> ps, variable |-> var, err |-> <<>>]
StaticSimpleSelect == [kind |-> "StaticSimpleSelect", params |-> <<>>, variable |-> NoParam, err |-> <<>>]
ParseError(chain) == [kind |-> "Error", params |-> <<>>, variable |-> NoParam, err |-> chain]

\* The statements plans are built from.
Statements ==
    { CsvImport,
      StmtWithParams(<<Get("x"), Post("x")>>),
      StmtWithParams(<<Get("x"), Func("f")>>),
      SetVariable(Get("x"), <<>>),
      SetVariable(Post("x"), <<>>),
      SetVariable(GetOrPost("x"), <<>>),
      SetVariable(Cookie("x"), <<>>),
      SetVariable(Get("x"), <<Func("f")>>),
      StaticSimpleSelect,
      ParseError(<<"syntax error", "near FROM">>) }

RECURSIVE SeqsUpTo(_, _)
SeqsUpTo(S, n) ==
    IF n = 0 THEN { <<>> }
    ELSE LET shorter == SeqsUpTo(S, n - 1)
         IN  shorter \cup { Append(s, x) : s \in { t \in shorter : Len(t) = n - 1 }, x \in S }

\* ParsedSqlFile.statements
Plans == SeqsUpTo(Statements, MaxPlanLen)

\* One result unit of the backend: Either::Right(row), Either::Left(query
\* result), or Err.  A cursor numbers its units in the order it returns them.
Cursor(s) == [i \in 1..Len(s) |-> [u |-> s[i], n |-> i]]

\* The result streams fetch_many may open.
Cursors ==
    { Cursor(<<>>),
      Cursor(<<"done">>),
      Cursor(<<"row", "row", "done">>),
      Cursor(<<"err", "row">>),
      Cursor(<<"row", "err", "done">>) }

\* What fetch_optional resolves to: an error, no row, a row whose first
\* column is NULL, or a row whose first column holds a value.
FetchOptional ==
    { [ok |-> FALSE, row |-> None, val |-> None],
      [ok |-> TRUE, row |-> None, val |-> None],
      [ok |-> TRUE, row |-> Some, val |-> None],
      [ok |-> TRUE, row |-> Some, val |-> "a"] }

(* ------------------------------ pure functions ------------------------ *)

\* SingleOrVec::as_json_str: the string a variable is bound as.
as_json_str(v) == IF v.tag = "Single" THEN v.val ELSE "[" \o v.val \o "]"

Lookup(vars, n) == IF n \in DOMAIN vars THEN as_json_str(vars[n]) ELSE None

\* extract_req_param: the value of one parameter reference, None for NULL.
\* fails: whether the evaluation of a pseudo-function fails in this call.
extract_req_param(param, request, fails) ==
    CASE param.p = "Get" -> [ok |-> TRUE, val |-> Lookup(request.get_variables, param.name)]
      [] param.p = "Post" -> [ok |-> TRUE, val |-> Lookup(request.post_variables, param.name)]
      [] param.p = "GetOrPost" ->
            [ok |-> TRUE,
             val |-> IF param.name \in DOMAIN request.post_variables
                     THEN Lookup(request.post_variables, param.name)
                     ELSE Lookup(request.get_variables, param.name)]
      [] param.p = "Func" -> IF fails THEN [ok |-> FALSE, val |-> "cannot evaluate " \o param.name]
                             ELSE [ok |-> TRUE, val |-> param.name \o "()"]
      [] OTHER -> [ok |-> TRUE, val |-> None]

\* bind_parameters: the arguments of a statement, one per parameter in order,
\* or the error of the first parameter whose extraction fails ("?" on line 158).
RECURSIVE BindFrom(_, _, _, _, _)
BindFrom(params, request, fails, k, arguments) ==
    IF k > Len(params) THEN [ok |-> TRUE, arguments |-> arguments, err |-> <<>>]
    ELSE LET argument == extract_req_param(params[k], request, fails)
         IN  IF argument.ok
             THEN BindFrom(params, request, fails, k + 1, Append(arguments, argument.val))
             ELSE [ok |-> FALSE, arguments |-> <<>>, err |-> <<argument.val>>]

bind_parameters(stmt, request, fails) == BindFrom(stmt.params, request, fails, 1, <<>>)

\* Whether the binding of stmt has an outcome that depends on the environment.
CanFail(stmt) == \E k \in 1..Len(stmt.params) : stmt.params[k].p = "Func"

\* DbItem
Row(v) == [type |-> "Row", val |-> v, chain |-> <<>>]
FinishedQuery == [type |-> "FinishedQuery", val |-> None, chain |-> <<>>]
Error(chain) == [type |-> "Error", val |-> None, chain |-> chain]

\* highlight_sql_error: the backend's error under a headline.
highlight_sql_error(context, err) == <<context, err>>

\* Mutant: a query result that is no row is reported as a row.
parse_single_sql_result_rows(res) ==
    CASE res.u \in {"row", "done"} -> Row(ToString(res.n))
      [] OTHER -> Error(highlight_sql_error("Failed to execute SQL statement", "db error"))

\* parse_single_sql_result: one backend result unit as one DbItem.
parse_single_sql_result(res) ==
    CASE res.u = "row" -> Row(ToString(res.n))
      [] res.u = "done" -> FinishedQuery
      [] OTHER -> Error(highlight_sql_error("Failed to execute SQL statement", "db error"))

\* Mutant: the chain is walked from its outermost cause.
RevNone(s) == s

RECURSIVE Rev(_)
Rev(s) == IF s = <<>> THEN <<>> ELSE Append(Rev(Tail(s)), Head(s))

\* anyhow::Error::context: a new outermost message on a chain.
Context(e, c) == <<c>> \o e

RECURSIVE CloneFrom(_, _)
CloneFrom(e, rest) == IF rest = <<>> THEN e ELSE CloneFrom(Context(e, Head(rest)), Tail(rest))

\* clone_anyhow_err: a fresh error from the chain of a stored one.
clone_anyhow_err(err) ==
    CloneFrom(<<"SQLPage could not parse and prepare this SQL statement">>, Rev(err))

\* Mutant: every kind of reference is accepted as the target of an assignment.
vars_and_name_any(variable) ==
    IF variable.p = "Post"
    THEN [ok |-> TRUE, vars |-> "post_variables", name |-> variable.name, err |-> <<>>]
    ELSE [ok |-> TRUE, vars |-> "get_variables", name |-> variable.name, err |-> <<>>]

\* vars_and_name: the map and the name a SetVariable statement writes to.
vars_and_name(variable) ==
    CASE variable.p \in {"Get", "GetOrPost"} ->
            [ok |-> TRUE, vars |-> "get_variables", name |-> variable.name, err |-> <<>>]
      [] variable.p = "Post" ->
            [ok |-> TRUE, vars |-> "post_variables", name |-> variable.name, err |-> <<>>]
      [] OTHER ->
            [ok |-> FALSE, vars |-> None, name |-> None,
             err |-> <<"Only GET and POST variables can be set">>]

\* row_to_string on the fetched row: the first column as an optional string.
row_to_string(fetched) == IF fetched.row = Some THEN fetched.val ELSE None

\* Mutant: an absent value leaves the variable as it was.
SetVarNoRemove(vars, name, value) ==
    IF value # None
    THEN [n \in DOMAIN vars \cup {name} |-> IF n = name THEN Single(value) ELSE vars[n]]
    ELSE vars

\* Lines 68-74: insert the value as a Single entry, or remove the name.
SetVar(vars, name, value) ==
    IF value # None
    THEN [n \in DOMAIN vars \cup {name} |-> IF n = name THEN Single(value) ELSE vars[n]]
    ELSE [n \in DOMAIN vars \ {name} |-> vars[n]]

\* db.connection.any_kind()
AnyKind == "Sqlite"

\* Line 118: the message of a failed acquisition, with the size of the pool
\* and the kind of its backend.
AcquireError ==
    "Unable to acquire a database connection to execute the SQL file. All of the "
        \o ToString(PoolSize) \o " " \o AnyKind \o " connections are busy."

\* Mutant: the held connection is ignored and the pool is asked every time.
take_connection_always(conn, acquire) ==
    IF acquire THEN [ok |-> TRUE, conn |-> Some, called |-> TRUE, err |-> <<>>]
    ELSE [ok |-> FALSE, conn |-> None, called |-> TRUE,
          err |-> <<AcquireError, "pool error">>]

\* take_connection: the held connection, or one acquired from the pool.
\* acquire: whether db.connection.acquire() succeeds when it is called.
take_connection(conn, acquire) ==
    IF conn = Some THEN [ok |-> TRUE, conn |-> Some, called |-> FALSE, err |-> <<>>]
    ELSE IF acquire THEN [ok |-> TRUE, conn |-> Some, called |-> TRUE, err |-> <<>>]
    ELSE [ok |-> FALSE, conn |-> None, called |-> TRUE,
          err |-> <<AcquireError, "pool error">>]

\* Mutant: an Err of the generator is not turned into an Error item.
unwrap_or_default(res) == IF res.ok THEN res.item ELSE FinishedQuery

\* Line 83: .map(|res| res.unwrap_or_else(DbItem::Error))
unwrap_or_else(res) == IF res.ok THEN res.item ELSE Error(res.err)

Ok(item) == [ok |-> TRUE, item |-> item, err |-> <<>>]
Err(e) == [ok |-> FALSE, item |-> FinishedQuery, err |-> e]

\* Line 57: the cursor is left as soon as it has returned an error.
is_err(elem) == elem.u = "err"

(* ------------------------------ state --------------------------------- *)

VARIABLES
    active,          \* the runs whose stream exists
    plan,            \* sql_file.statements of each run
    request,         \* the RequestInfo each run borrows
    request0,        \* the RequestInfo as it was when the run started
    pc,              \* where each run's generator is suspended
    idx,             \* how many statements the for loop has taken
    connection_opt,  \* the generator's local: None or Some(PoolConnection)
    stream,          \* the units the open cursor of fetch_many has yet to return
    out,             \* the items the consumer has received, with their statement
    pulling,         \* the consumer is polling the stream for its next item
    dropped,         \* the consumer has dropped the stream
    idle,            \* connections the pool can still lend
    events           \* history of each run: what it did, in order

vars == <<active, plan, request, request0, pc, idx, connection_opt, stream, out, pulling,
          dropped, idle, events>>

\* One entry of the history.  op: pull, yield, bind, acquire, reuse, import, exec,
\* unit, scope (a refused target), set, drop, release.  stmt: the statement (0 outside any).  data: strings.
Event(op, stmt, ok, data) == [op |-> op, stmt |-> stmt, ok |-> ok, data |-> data]

TypeOK ==
    /\ active \subseteq Runs
    /\ \A r \in Runs :
        /\ plan[r] \in Plans
        /\ pc[r] \in {"loop", "csv_import", "stmt_take", "stmt_fetch", "stmt_next",
                      "set_take", "set_fetch", "abort", "done"}
        /\ idx[r] \in 0..Len(plan[r])
        /\ connection_opt[r] \in {None, Some}
        /\ pulling[r] \in BOOLEAN
        /\ dropped[r] \in BOOLEAN
    /\ idle \in 0..PoolSize

InitRun(rs) ==
    /\ active = rs
    /\ plan \in [Runs -> Plans]
    /\ \A r \in Runs \ rs : plan[r] = <<>>
    /\ request \in [Runs -> Requests]
    /\ \A r \in Runs \ rs : request[r] = RequestInfo(EmptyVars, EmptyVars)
    /\ request0 = request
    /\ pc = [r \in Runs |-> "loop"]
    /\ idx = [r \in Runs |-> 0]
    /\ connection_opt = [r \in Runs |-> None]
    /\ stream = [r \in Runs |-> <<>>]
    /\ out = [r \in Runs |-> <<>>]
    /\ pulling = [r \in Runs |-> FALSE]
    /\ dropped = [r \in Runs |-> FALSE]
    /\ idle = PoolSize
    /\ events = [r \in Runs |-> <<>>]

\* One request in flight.
Init == InitRun({"r1"})

(* ------------------------------ the generator ------------------------- *)

\* Mutant: the generator runs ahead of the consumer.
RunningEager(r) == r \in active /\ ~dropped[r]

\* The generator of run r runs only while the consumer polls it.
Running(r) == r \in active /\ pulling[r] /\ ~dropped[r]

\* Mutant: the loop walks the statements from the end of the file.
NextIndexFromEnd(r) == Len(plan[r]) - idx[r]

\* Line 42: the statement the for loop takes next.
NextIndex(r) == idx[r] + 1

\* Mutant: a static select is run as a query with no parameter.
ArmStaticAsQuery(res) ==
    IF res.kind = "StaticSimpleSelect" THEN "StmtWithParams" ELSE res.kind

\* Line 43: the match arm a statement is handled by.
Arm(res) == res.kind

AtStatement(r, kind) ==
    /\ Running(r)
    /\ pc[r] = "loop"
    /\ idx[r] < Len(plan[r])
    /\ Arm(plan[r][NextIndex(r)]) = kind

Log(r, es) == events' = [events EXCEPT ![r] = @ \o es]

\* yield: the consumer receives the item and the generator is suspended at to.
Yield(r, i, res, to, es) ==
    /\ out' = [out EXCEPT ![r] = Append(@, [stmt |-> i, item |-> unwrap_or_else(res)])]
    /\ pulling' = [pulling EXCEPT ![r] = FALSE]
    /\ pc' = [pc EXCEPT ![r] = to]
    /\ Log(r, es \o <<Event("yield", i, res.ok, <<unwrap_or_else(res).type>>)>>)

\* No yield: the generator goes on to to.
Goto(r, to, es) ==
    /\ pc' = [pc EXCEPT ![r] = to]
    /\ Log(r, es)
    /\ UNCHANGED <<out, pulling>>

\* Mutant: the Err is yielded like any item and the generator goes on.
TryContinue(r, i, res, to, es) ==
    IF res.ok THEN Goto(r, to, es) ELSE Yield(r, i, Err(res.err), to, es)

\* "?": an Err is yielded and the generator returns at its next poll.
Try(r, i, res, to, es) ==
    IF res.ok THEN Goto(r, to, es) ELSE Yield(r, i, Err(res.err), "abort", es)

\* Mutant: the held connection is forgotten, not returned.
DropLocalsLeak(r) ==
    /\ connection_opt' = [connection_opt EXCEPT ![r] = None]
    /\ idle' = idle
    /\ stream' = [stream EXCEPT ![r] = <<>>]

\* Dropping the generator's locals returns a held connection to the pool.
DropLocals(r) ==
    /\ connection_opt' = [connection_opt EXCEPT ![r] = None]
    /\ idle' = IF connection_opt[r] = Some THEN idle + 1 ELSE idle
    /\ stream' = [stream EXCEPT ![r] = <<>>]

Released(r) == IF connection_opt[r] = Some THEN <<Event("release", 0, TRUE, <<>>)>> ELSE <<>>

\* Mutant: the pool lends a connection whether it has one idle or not.
TakeConnectionUnbounded(r, i, to) ==
    \E acquire \in BOOLEAN :
        /\ connection_opt[r] = Some => acquire
        /\ LET t == take_connection(connection_opt[r], acquire)
           IN  /\ connection_opt' = [connection_opt EXCEPT ![r] = t.conn]
               /\ idle' = IF t.called /\ t.ok THEN idle - 1 ELSE idle
               /\ Try(r, i, t, to,
                      <<Event(IF t.called THEN "acquire" ELSE "reuse", i, t.ok, <<>>)>>)

\* take_connection(db, &mut connection_opt).await? within statement i.
TakeConnection(r, i, to) ==
    \E acquire \in BOOLEAN :
        /\ connection_opt[r] = Some => acquire
        /\ (connection_opt[r] = None /\ acquire) => idle > 0
        /\ LET t == take_connection(connection_opt[r], acquire)
           IN  /\ connection_opt' = [connection_opt EXCEPT ![r] = t.conn]
               /\ idle' = IF t.called /\ t.ok THEN idle - 1 ELSE idle
               /\ Try(r, i, t, to,
                      <<Event(IF t.called THEN "acquire" ELSE "reuse", i, t.ok, <<>>)>>)

\* Mutant: the error of bind_parameters is not propagated.
BindParametersUnchecked(r, i, to) ==
    \E fails \in BOOLEAN :
        /\ fails => CanFail(plan[r][i])
        /\ LET b == bind_parameters(plan[r][i], request[r], fails)
           IN  Goto(r, to, <<Event("bind", i, b.ok, b.arguments)>>)

\* bind_parameters(stmt, request).await? within statement i.
BindParameters(r, i, to) ==
    \E fails \in BOOLEAN :
        /\ fails => CanFail(plan[r][i])
        /\ LET b == bind_parameters(plan[r][i], request[r], fails)
           IN  Try(r, i, b, to, <<Event("bind", i, b.ok, b.arguments)>>)

\* The consumer polls the stream for its next item.
Pull(r) ==
    /\ r \in active
    /\ ~pulling[r] /\ ~dropped[r] /\ pc[r] # "done"
    /\ pulling' = [pulling EXCEPT ![r] = TRUE]
    /\ Log(r, <<Event("pull", 0, TRUE, <<>>)>>)
    /\ UNCHANGED <<active, plan, request0, request, pc, idx, connection_opt, stream, out, dropped, idle>>

\* The consumer drops the stream, at any suspension point of the generator.
Drop(r) ==
    /\ r \in active
    /\ ~dropped[r]
    /\ dropped' = [dropped EXCEPT ![r] = TRUE]
    /\ pulling' = [pulling EXCEPT ![r] = FALSE]
    /\ DropLocals(r)
    /\ Log(r, <<Event("drop", 0, TRUE, <<>>)>> \o Released(r))
    /\ UNCHANGED <<active, plan, request0, request, pc, idx, out>>

\* Lines 44-45: CsvImport takes the connection.
CsvTakeConnection(r) ==
    /\ AtStatement(r, "CsvImport")
    /\ idx' = [idx EXCEPT ![r] = NextIndex(r)]
    /\ TakeConnection(r, NextIndex(r), "csv_import")
    /\ UNCHANGED <<active, plan, request0, request, stream, dropped>>

\* Mutant: the result of run_csv_import is discarded.
RunCsvImportUnchecked(r) ==
    /\ Running(r) /\ pc[r] = "csv_import"
    /\ \E ok \in BOOLEAN : Goto(r, "loop", <<Event("import", idx[r], ok, <<>>)>>)
    /\ UNCHANGED <<active, plan, request0, request, idx, connection_opt, stream, dropped, idle>>

\* Line 47: run_csv_import(connection, csv_import, request).await?
RunCsvImport(r) ==
    /\ Running(r) /\ pc[r] = "csv_import"
    /\ \E ok \in BOOLEAN :
        Try(r, idx[r], [ok |-> ok, err |-> <<"csv import failed">>], "loop",
            <<Event("import", idx[r], ok, <<>>)>>)
    /\ UNCHANGED <<active, plan, request0, request, idx, connection_opt, stream, dropped, idle>>

\* Lines 49-50: StmtWithParams binds its parameters.
StmtBind(r) ==
    /\ AtStatement(r, "StmtWithParams")
    /\ idx' = [idx EXCEPT ![r] = NextIndex(r)]
    /\ BindParameters(r, NextIndex(r), "stmt_take")
    /\ UNCHANGED <<active, plan, request0, request, connection_opt, stream, dropped, idle>>

\* Line 51
StmtTakeConnection(r) ==
    /\ Running(r) /\ pc[r] = "stmt_take"
    /\ TakeConnection(r, idx[r], "stmt_fetch")
    /\ UNCHANGED <<active, plan, request0, request, idx, stream, dropped>>

\* Line 53: connection.fetch_many(query): the backend runs the query and
\* opens a cursor on its result units.
FetchMany(r) ==
    /\ Running(r) /\ pc[r] = "stmt_fetch"
    /\ \E c \in Cursors :
        /\ stream' = [stream EXCEPT ![r] = c]
        /\ Goto(r, "stmt_next", <<Event("exec", idx[r], TRUE, [k \in 1..Len(c) |-> c[k].u])>>)
    /\ UNCHANGED <<active, plan, request0, request, idx, connection_opt, dropped, idle>>

\* Mutant: the loop misses its break and keeps reading the cursor.
AfterYieldNoBreak(elem) == "stmt_next"

\* Where the while loop of lines 54-60 resumes after the yield of elem.
AfterYield(elem) == IF is_err(elem) THEN "loop" ELSE "stmt_next"

\* Lines 54-60: stream.next().await, yield, break on an error.
StreamNext(r) ==
    /\ Running(r) /\ pc[r] = "stmt_next"
    /\ IF stream[r] = <<>>
       THEN /\ Goto(r, "loop", <<>>)
            /\ UNCHANGED stream
       ELSE LET elem == Head(stream[r])
            IN  /\ stream' = [stream EXCEPT ![r] =
                                 IF AfterYield(elem) = "loop" THEN <<>> ELSE Tail(@)]
                /\ Yield(r, idx[r], Ok(parse_single_sql_result(elem)), AfterYield(elem),
                         <<Event("unit", idx[r], ~is_err(elem), <<elem.u>>)>>)
    /\ UNCHANGED <<active, plan, request0, request, idx, connection_opt, dropped, idle>>

\* Lines 62-63: SetVariable binds the parameters of its query.
SetBind(r) ==
    /\ AtStatement(r, "SetVariable")
    /\ idx' = [idx EXCEPT ![r] = NextIndex(r)]
    /\ BindParameters(r, NextIndex(r), "set_take")
    /\ UNCHANGED <<active, plan, request0, request, connection_opt, stream, dropped, idle>>

\* Line 64
SetTakeConnection(r) ==
    /\ Running(r) /\ pc[r] = "set_take"
    /\ TakeConnection(r, idx[r], "set_fetch")
    /\ UNCHANGED <<active, plan, request0, request, idx, stream, dropped>>

\* Mutant: the fetched row of a completed assignment is yielded as a Row.
SetFetchOptionalYield(r) ==
    /\ Running(r) /\ pc[r] = "set_fetch"
    /\ \E fetched \in FetchOptional :
        LET i == idx[r]
            value == row_to_string(fetched)
            target == vars_and_name(plan[r][i].variable)
            exec == Event("exec", i, fetched.ok, <<fetched.row, fetched.val>>)
        IN  IF ~fetched.ok
            THEN /\ Try(r, i, [ok |-> FALSE, err |-> <<"db error">>], "loop", <<exec>>)
                 /\ UNCHANGED request
            ELSE IF ~target.ok
            THEN /\ Try(r, i, target, "loop", <<exec, Event("scope", i, FALSE, <<>>)>>)
                 /\ UNCHANGED request
            ELSE /\ Yield(r, i, Ok(Row(value)), "loop",
                          <<exec, Event("set", i, TRUE, <<target.vars, target.name, value>>)>>)
                 /\ request' = [request EXCEPT ![r][target.vars] =
                                   SetVar(@, target.name, value)]
    /\ UNCHANGED <<active, plan, request0, idx, connection_opt, stream, dropped, idle>>

\* Mutant: the target is validated before the inner query is sent.
SetFetchOptionalScopeFirst(r) ==
    /\ Running(r) /\ pc[r] = "set_fetch"
    /\ \E fetched \in FetchOptional :
        LET i == idx[r]
            value == row_to_string(fetched)
            target == vars_and_name(plan[r][i].variable)
            exec == Event("exec", i, fetched.ok, <<fetched.row, fetched.val>>)
        IN  IF ~target.ok
            THEN /\ Try(r, i, target, "loop", <<Event("scope", i, FALSE, <<>>)>>)
                 /\ UNCHANGED request
            ELSE IF ~fetched.ok
            THEN /\ Try(r, i, [ok |-> FALSE, err |-> <<"db error">>], "loop", <<exec>>)
                 /\ UNCHANGED request
            ELSE /\ Goto(r, "loop", <<exec, Event("set", i, TRUE, <<target.vars, target.name, value>>)>>)
                 /\ request' = [request EXCEPT ![r][target.vars] =
                                   SetVar(@, target.name, value)]
    /\ UNCHANGED <<active, plan, request0, idx, connection_opt, stream, dropped, idle>>

\* Lines 66-74: fetch_optional(query).await?, vars_and_name(..)?, then the
\* variable is inserted or removed.
SetFetchOptional(r) ==
    /\ Running(r) /\ pc[r] = "set_fetch"
    /\ \E fetched \in FetchOptional :
        LET i == idx[r]
            value == row_to_string(fetched)
            target == vars_and_name(plan[r][i].variable)
            exec == Event("exec", i, fetched.ok, <<fetched.row, fetched.val>>)
        IN  IF ~fetched.ok
            THEN /\ Try(r, i, [ok |-> FALSE, err |-> <<"db error">>], "loop", <<exec>>)
                 /\ UNCHANGED request
            ELSE IF ~target.ok
            THEN /\ Try(r, i, target, "loop", <<exec, Event("scope", i, FALSE, <<>>)>>)
                 /\ UNCHANGED request
            ELSE /\ Goto(r, "loop", <<exec, Event("set", i, TRUE, <<target.vars, target.name, value>>)>>)
                 /\ request' = [request EXCEPT ![r][target.vars] =
                                   SetVar(@, target.name, value)]
    /\ UNCHANGED <<active, plan, request0, idx, connection_opt, stream, dropped, idle>>

\* Lines 76-78
StaticSimpleSelectYield(r) ==
    /\ AtStatement(r, "StaticSimpleSelect")
    /\ idx' = [idx EXCEPT ![r] = NextIndex(r)]
    /\ Yield(r, NextIndex(r), Ok(Row("static")), "loop", <<>>)
    /\ UNCHANGED <<active, plan, request0, request, connection_opt, stream, dropped, idle>>

\* Mutant: the stored parse failure is raised with ? and ends the run.
ParseErrorRaise(r) ==
    /\ AtStatement(r, "Error")
    /\ idx' = [idx EXCEPT ![r] = NextIndex(r)]
    /\ Yield(r, NextIndex(r), Err(clone_anyhow_err(plan[r][NextIndex(r)].err)), "abort", <<>>)
    /\ UNCHANGED <<active, plan, request0, request, connection_opt, stream, dropped, idle>>

\* Line 79
ParseErrorYield(r) ==
    /\ AtStatement(r, "Error")
    /\ idx' = [idx EXCEPT ![r] = NextIndex(r)]
    /\ Yield(r, NextIndex(r), Ok(Error(clone_anyhow_err(plan[r][NextIndex(r)].err))), "loop", <<>>)
    /\ UNCHANGED <<active, plan, request0, request, connection_opt, stream, dropped, idle>>

\* Mutant: the generator returns at the end of the plan only, and is never
\* resumed after a "?" has yielded its Err.
ReturnAtEndOnly(r) ==
    /\ Running(r)
    /\ pc[r] = "loop" /\ idx[r] = Len(plan[r])
    /\ pc' = [pc EXCEPT ![r] = "done"]
    /\ pulling' = [pulling EXCEPT ![r] = FALSE]
    /\ DropLocals(r)
    /\ Log(r, Released(r))
    /\ UNCHANGED <<active, plan, request0, request, idx, out, dropped>>

\* The generator returns: the plan is exhausted, or an Err was yielded.  Its
\* locals are dropped and the consumer sees the end of the stream.
Return(r) ==
    /\ Running(r)
    /\ \/ pc[r] = "loop" /\ idx[r] = Len(plan[r])
       \/ pc[r] = "abort"
    /\ pc' = [pc EXCEPT ![r] = "done"]
    /\ pulling' = [pulling EXCEPT ![r] = FALSE]
    /\ DropLocals(r)
    /\ Log(r, Released(r))
    /\ UNCHANGED <<active, plan, request0, request, idx, out, dropped>>

Next ==
    \E r \in Runs :
        \/ Pull(r)
        \/ Drop(r)
        \/ CsvTakeConnection(r)
        \/ RunCsvImport(r)
        \/ StmtBind(r)
        \/ StmtTakeConnection(r)
        \/ FetchMany(r)
        \/ StreamNext(r)
        \/ SetBind(r)
        \/ SetTakeConnection(r)
        \/ SetFetchOptional(r)
        \/ StaticSimpleSelectYield(r)
        \/ ParseErrorYield(r)
        \/ Return(r)

Spec == Init /\ [][Next]_vars

(* ------------------------------ progress ------------------------------ *)

\* A step of the generator of r: what a poll makes it do up to its next
\* suspension point.
Step(r) ==
    \/ CsvTakeConnection(r)
    \/ RunCsvImport(r)
    \/ StmtBind(r)
    \/ StmtTakeConnection(r)
    \/ FetchMany(r)
    \/ StreamNext(r)
    \/ SetBind(r)
    \/ SetTakeConnection(r)
    \/ SetFetchOptional(r)
    \/ StaticSimpleSelectYield(r)
    \/ ParseErrorYield(r)
    \/ Return(r)

\* The consumer polls again as long as the stream has not ended, and every
\* await of the generator completes.  Nothing makes the consumer drop the
\* stream, and nothing prevents it.
Fairness == \A r \in Runs : WF_vars(Pull(r)) /\ WF_vars(Step(r))

LiveSpec == Init /\ [][Next]_vars /\ Fairness

(* ------------------------------ stored parse errors -------------------- *)

\* The cause chains of a stored parse error, outermost cause first.
Chains == SeqsUpTo({"a", "b"}, MaxChainLen) \ { <<>> }

\* Files that failed to parse, in one or in two statements.
ClonePlans ==
    { <<ParseError(c)>> : c \in Chains }
        \cup { <<ParseError(c), ParseError(d)>> : c \in {<<"a", "b">>}, d \in Chains }

\* The same parsed file is run for two requests.
InitClone ==
    /\ active = Runs
    /\ \E p \in ClonePlans : plan = [r \in Runs |-> p]
    /\ request = [r \in Runs |-> RequestInfo(EmptyVars, EmptyVars)]
    /\ request0 = request
    /\ pc = [r \in Runs |-> "loop"]
    /\ idx = [r \in Runs |-> 0]
    /\ connection_opt = [r \in Runs |-> None]
    /\ stream = [r \in Runs |-> <<>>]
    /\ out = [r \in Runs |-> <<>>]
    /\ pulling = [r \in Runs |-> FALSE]
    /\ dropped = [r \in Runs |-> FALSE]
    /\ idle = PoolSize
    /\ events = [r \in Runs |-> <<>>]

\* What a run over such a file can do.
NextClone ==
    \E r \in Runs :
        \/ Pull(r)
        \/ Drop(r)
        \/ ParseErrorYield(r)
        \/ Return(r)

SpecClone == InitClone /\ [][NextClone]_vars

(* ------------------------------ concurrent requests -------------------- *)

\* The plans of the requests served at the same time.
ConcPlans ==
    { <<StmtWithParams(<<Get("x"), Post("x")>>)>>,
      <<SetVariable(Get("x"), <<>>), CsvImport>>,
      <<StaticSimpleSelect, ParseError(<<"syntax error", "near FROM">>)>> }

\* Every request in flight at once, each with its own plan and variables, all
\* on the one pool.
InitConc ==
    /\ plan \in [Runs -> ConcPlans]
    /\ request \in [Runs -> {RequestInfo([n \in {"x"} |-> Vec("a,b")], [n \in {"x"} |-> Single("b")])}]
    /\ InitRun(Runs)

SpecConc == InitConc /\ [][Next]_vars

(* ------------------------------ reading the history ------------------- *)

Ev(r) == events[r]
Pos(r) == 1..Len(events[r])
Items(r) == 1..Len(out[r])

\* The positions of the history of r with the given op.
At(r, op) == { k \in Pos(r) : Ev(r)[k].op = op }

\* Statement i of r fails at an operation op.
FailedAt(r, i, op) == \E k \in At(r, op) : Ev(r)[k].stmt = i /\ ~Ev(r)[k].ok

\* The positions in the output of the items of statement i.
ItemsOf(r, i) == { k \in Items(r) : out[r][k].stmt = i }
ErrorsOf(r, i) == { k \in ItemsOf(r, i) : out[r][k].item.type = "Error" }

\* An Err was yielded through "?": the run is aborted.
Aborted(r) == \E k \in At(r, "yield") : ~Ev(r)[k].ok

Kind(r, i) == plan[r][i].kind
Stmts(r) == 1..Len(plan[r])

\* Statement i has been entered by the for loop and has left a trace.
Entered(r, i) == \E k \in Pos(r) : Ev(r)[k].stmt = i

\* The run of r ends at statement i: nothing of a later statement happens.
EndsAt(r, i) ==
    /\ pc[r] \in {"abort", "done"}
    /\ idx[r] = i
    /\ \A k \in Pos(r) : Ev(r)[k].stmt <= i
    /\ Cardinality(ItemsOf(r, i)) = 1
    /\ ErrorsOf(r, i) = {Len(out[r])}
    /\ Cardinality({ k \in At(r, "yield") : ~Ev(r)[k].ok }) = 1

(* ------------------------------ C1 ------------------------------------- *)

\* C1: when the cursor of StmtWithParams statement i returns an error, the
\* output holds exactly one Error item of statement i, which is the last item
\* of statement i; no unit of statement i is consumed after the error; the
\* error is no abort (it is yielded as Ok), and a run that ends without any
\* abort has entered every statement after i.
C1_ExecutionErrorIsRecoverable ==
    \A r \in active : \A i \in Stmts(r) :
        (Kind(r, i) = "StmtWithParams" /\ FailedAt(r, i, "unit")) =>
            LET e == CHOOSE k \in At(r, "unit") : Ev(r)[k].stmt = i /\ ~Ev(r)[k].ok
            IN  /\ Cardinality(ErrorsOf(r, i)) = 1
                /\ \A k \in ItemsOf(r, i) : \A j \in ErrorsOf(r, i) : k <= j
                /\ \A k \in At(r, "unit") : Ev(r)[k].stmt = i => k <= e
                /\ Ev(r)[e + 1].op = "yield" /\ Ev(r)[e + 1].ok
                /\ \A k \in At(r, "yield") : ~Ev(r)[k].ok => Ev(r)[k].stmt # i
                /\ (pc[r] = "done" /\ ~Aborted(r)) =>
                       \A j \in Stmts(r) : j > i => Entered(r, j)

\* A cursor returned a row, then an error, with a unit left behind it; the
\* statement after it then ran and yielded a row of its own.
C1_Witness ==
    /\ Len(plan["r1"]) = 2
    /\ Kind("r1", 1) = "StmtWithParams"
    /\ \E k \in At("r1", "exec") :
           Ev("r1")[k].stmt = 1 /\ Ev("r1")[k].data = <<"row", "err", "done">>
    /\ Kind("r1", 2) = "StmtWithParams"
    /\ \E k \in ItemsOf("r1", 2) : out["r1"][k].item.type = "Row"
    /\ pc["r1"] = "done"

(* ------------------------------ C2 ------------------------------------- *)

\* C2: when bind_parameters fails for statement i, the run ends at i: the
\* statement has exactly one item, an Error, which is the last item of the
\* output; the statement never takes the connection nor reaches the backend;
\* nothing of a later statement happens; and the next poll of the consumer
\* can only end the stream.
C2_BindingFailureEndsRun ==
    \A r \in active : \A i \in Stmts(r) :
        FailedAt(r, i, "bind") =>
            /\ EndsAt(r, i)
            /\ \A k \in Pos(r) :
                   Ev(r)[k].stmt = i => Ev(r)[k].op \in {"bind", "yield"}
            /\ (pc[r] = "abort" /\ Running(r)) => ENABLED Return(r)
            /\ pc[r] = "done" => ~ENABLED Pull(r)

\* The second statement failed to bind after the first one yielded a row, and
\* the consumer has seen the end of the stream.
C2_Witness ==
    /\ Len(plan["r1"]) = 2
    /\ Kind("r1", 1) = "StaticSimpleSelect"
    /\ Kind("r1", 2) = "StmtWithParams"
    /\ FailedAt("r1", 2, "bind")
    /\ Len(out["r1"]) = 2
    /\ pc["r1"] = "done"

(* ------------------------------ C3 ------------------------------------- *)

\* From position k on, no operation of the history of r belongs to a
\* statement earlier than hi or than the statement of an operation before it.
RECURSIVE InPlanOrder(_, _, _)
InPlanOrder(r, k, hi) ==
    \/ k > Len(events[r])
    \/ LET i == Ev(r)[k].stmt
       IN  /\ i = 0 \/ i >= hi
           /\ InPlanOrder(r, k + 1, IF i = 0 THEN hi ELSE i)

\* C3: the items of the output are in statement order, every operation of the
\* history belongs to a statement no earlier than the operations before it,
\* the statements that left a trace are exactly the first idx statements of
\* the plan, none is bound or sent to the backend twice, and a cursor is open
\* only while its own statement is being read.
C3_StatementOrderPreserved ==
    \A r \in active :
        /\ \A k \in Items(r) : k > 1 => out[r][k - 1].stmt <= out[r][k].stmt
        /\ InPlanOrder(r, 1, 0)
        /\ { Ev(r)[k].stmt : k \in Pos(r) } \ {0} = 1..idx[r]
        /\ \A i \in Stmts(r) : \A op \in {"bind", "exec", "import"} :
               Cardinality({ k \in At(r, op) : Ev(r)[k].stmt = i }) <= 1
        /\ stream[r] # <<>> => pc[r] = "stmt_next"

\* Two statements that both streamed rows, with no failure anywhere.
C3_Witness ==
    /\ Len(plan["r1"]) = 2
    /\ Cardinality(ItemsOf("r1", 1)) = 3
    /\ Cardinality(ItemsOf("r1", 2)) = 3
    /\ \A k \in Items("r1") : out["r1"][k].item.type # "Error"
    /\ pc["r1"] = "done"

(* ------------------------------ C4 ------------------------------------- *)

Names == {"x"}
Maps == {"get_variables", "post_variables"}

Max(S) == CHOOSE k \in S : \A l \in S : l <= k

\* The assignments of r to name n of map vs, as positions of the history.
SetsOn(r, vs, n) == { k \in At(r, "set") : Ev(r)[k].data[1] = vs /\ Ev(r)[k].data[2] = n }

\* The map a Get or Post reference reads.
MapOf(param) == IF param.p = "Get" THEN "get_variables" ELSE "post_variables"

\* C4: after the last completed assignment to name n of a map by a statement
\* whose target is a Get or a Post reference, the map holds n as the Single
\* value of the fetched row when the row has a value, and does not hold n when
\* no row was fetched; and every argument bound for a Get or Post reference is
\* the value the last assignment before that binding left there (NULL when it
\* removed the name), or the value the request started with when there was none.
C4_AssignmentUpdatesContext ==
    \A r \in active :
        /\ \A vs \in Maps : \A n \in Names :
               SetsOn(r, vs, n) # {} =>
                   LET k == Max(SetsOn(r, vs, n))
                       fetched == Ev(r)[k - 1].data
                   IN  plan[r][Ev(r)[k].stmt].variable.p \in {"Get", "Post"} =>
                           /\ Ev(r)[k - 1].op = "exec"
                           /\ (fetched[1] = Some /\ fetched[2] # None) =>
                                  /\ n \in DOMAIN request[r][vs]
                                  /\ request[r][vs][n] = Single(fetched[2])
                           /\ fetched[1] = None => n \notin DOMAIN request[r][vs]
        /\ \A k \in At(r, "bind") :
               LET params == plan[r][Ev(r)[k].stmt].params
               IN  Ev(r)[k].ok =>
                       \A m \in 1..Len(params) :
                           params[m].p \in {"Get", "Post"} =>
                               LET vs == MapOf(params[m])
                                   before == { l \in SetsOn(r, vs, params[m].name) : l < k }
                               IN  Ev(r)[k].data[m] =
                                       IF before = {}
                                       THEN Lookup(request0[r][vs], params[m].name)
                                       ELSE Ev(r)[Max(before)].data[3]

\* The GET variable x started as a multi-valued entry; an assignment replaced
\* it by the single value "a", and the next statement was bound with "a".
C4_Witness ==
    /\ Len(plan["r1"]) = 2
    /\ plan["r1"][1] = SetVariable(Get("x"), <<>>)
    /\ request0["r1"].get_variables = [n \in {"x"} |-> Vec("a,b")]
    /\ request["r1"].get_variables = [n \in {"x"} |-> Single("a")]
    /\ \E k \in At("r1", "bind") :
           Ev("r1")[k].stmt = 2 /\ Ev("r1")[k].data = <<"a", "b">>

(* ------------------------------ C5 ------------------------------------- *)

Acquired(r) == { k \in At(r, "acquire") : Ev(r)[k].ok }
Ended(r) == pc[r] = "done" \/ dropped[r]

\* C5: a run that has acquired its connection and is still in progress holds
\* it and has released nothing; a run that has ended (the stream exhausted,
\* aborted, or dropped by the consumer) holds nothing and has released as many
\* connections as it acquired; no run releases twice, nothing but the drop of
\* an ended stream follows a release, and the pool lends again exactly the
\* connections that no run holds.
C5_LeaseHeldUntilRunEnds ==
    /\ \A r \in active :
        /\ Cardinality(At(r, "release")) <= 1
        /\ (Acquired(r) # {} /\ ~Ended(r)) =>
               connection_opt[r] = Some /\ At(r, "release") = {}
        /\ Ended(r) =>
               /\ connection_opt[r] = None
               /\ Cardinality(At(r, "release")) = Cardinality(Acquired(r))
        /\ \A k \in At(r, "release") : \A l \in Pos(r) : l > k => Ev(r)[l].op = "drop"
    /\ idle = PoolSize - Cardinality({ r \in Runs : connection_opt[r] = Some })

\* The consumer dropped the stream while a cursor was open, before the plan
\* was exhausted, and the connection went back to the pool.
C5_Witness ==
    /\ dropped["r1"]
    /\ pc["r1"] = "stmt_next"
    /\ idx["r1"] < Len(plan["r1"])
    /\ Len(out["r1"]) = 1
    /\ At("r1", "release") # {}
    /\ idle = PoolSize

(* ------------------------------ C6 ------------------------------------- *)

\* C6: a run over a plan with no CsvImport calls the pool at most once, whether
\* the call succeeds or not; every statement that reaches the backend has taken
\* the connection in its own turn, and all but the first of them reuse it.
C6_AtMostOneAcquisition ==
    \A r \in active :
        (\A i \in Stmts(r) : Kind(r, i) # "CsvImport") =>
            /\ Cardinality(At(r, "acquire")) <= 1
            /\ \A k \in At(r, "exec") :
                   /\ Ev(r)[k - 1].stmt = Ev(r)[k].stmt
                   /\ Ev(r)[k - 1].op \in {"acquire", "reuse"}
                   /\ Ev(r)[k - 1].ok
            /\ \A k \in At(r, "reuse") : \E l \in Acquired(r) : l < k

\* The first query failed at execution; the second reused its connection.
C6_Witness ==
    /\ Len(plan["r1"]) = 2
    /\ \A i \in Stmts("r1") : Kind("r1", i) = "StmtWithParams"
    /\ FailedAt("r1", 1, "unit")
    /\ \E k \in At("r1", "exec") : Ev("r1")[k].stmt = 2 /\ Ev("r1")[k - 1].op = "reuse"
    /\ Cardinality(At("r1", "acquire")) = 1

(* ------------------------------ C7 ------------------------------------- *)

NoDatabase == {"StaticSimpleSelect", "Error"}

\* C7: a StaticSimpleSelect or Error statement does nothing but yield its one
\* item (a Row, respectively an Error): it binds nothing, takes no connection
\* and reaches no backend; and a run over a plan of such statements only never
\* calls the pool and never holds a connection.
C7_StaticAndParseFailureNeverTouchDatabase ==
    \A r \in active :
        /\ \A k \in Pos(r) :
               (Ev(r)[k].stmt # 0 /\ Kind(r, Ev(r)[k].stmt) \in NoDatabase) =>
                   Ev(r)[k].op = "yield" /\ Ev(r)[k].ok
        /\ \A i \in Stmts(r) :
               Kind(r, i) \in NoDatabase =>
                   /\ Cardinality(ItemsOf(r, i)) <= 1
                   /\ \A k \in ItemsOf(r, i) :
                          out[r][k].item.type =
                              IF Kind(r, i) = "Error" THEN "Error" ELSE "Row"
        /\ (\A i \in Stmts(r) : Kind(r, i) \in NoDatabase) =>
               /\ \A k \in Pos(r) : Ev(r)[k].op \in {"pull", "yield", "drop"}
               /\ connection_opt[r] = None

\* A plan of a static select and a parse failure, run to its end.
C7_Witness ==
    /\ Len(plan["r1"]) = 2
    /\ Kind("r1", 1) = "StaticSimpleSelect"
    /\ Kind("r1", 2) = "Error"
    /\ Len(out["r1"]) = 2
    /\ pc["r1"] = "done"
    /\ idle = PoolSize

(* ------------------------------ C8 ------------------------------------- *)

\* What an assignment of value to name does to a map.
Assigned(vs, name, value) ==
    IF value = None THEN [n \in DOMAIN vs \ {name} |-> vs[n]]
    ELSE [n \in DOMAIN vs \cup {name} |-> IF n = name THEN Single(value) ELSE vs[n]]

\* The request that the assignments of a history make of req.
RECURSIVE Replay(_, _)
Replay(req, es) ==
    IF es = <<>> THEN req
    ELSE LET e == Head(es)
         IN  Replay(IF e.op = "set"
                    THEN [req EXCEPT ![e.data[1]] = Assigned(@, e.data[2], e.data[3])]
                    ELSE req,
                    Tail(es))

\* From position k on, with pulls polls and yields items before it: the
\* consumer polls only when it has received every item yielded, and the
\* generator acts only with one poll more than the items it has yielded.
RECURSIVE OnDemand(_, _, _, _)
OnDemand(r, k, pulls, yields) ==
    \/ k > Len(events[r])
    \/ LET op == Ev(r)[k].op
       IN  /\ op = "pull" => pulls = yields
           /\ op \notin {"pull", "drop", "release"} => pulls = yields + 1
           /\ OnDemand(r, k + 1,
                       IF op = "pull" THEN pulls + 1 ELSE pulls,
                       IF op = "yield" THEN yields + 1 ELSE yields)

\* C8: whenever the generator does anything (binds, takes the connection,
\* imports, reaches the backend, reads a unit, assigns a variable, yields), the
\* consumer has received every item yielded before and has polled once more;
\* the consumer polls only when it has received all that was yielded; after
\* the stream is dropped nothing happens but the release of the connection;
\* the variables are those the assignments of the history made, and the
\* statements that left a trace are among the ones the loop has taken.
C8_ConsumptionDrivesExecution ==
    \A r \in active :
        /\ OnDemand(r, 1, 0, 0)
        /\ \A k \in At(r, "drop") :
               \A l \in Pos(r) : l > k => (l = k + 1 /\ Ev(r)[l].op = "release")
        /\ \A k \in Pos(r) : Ev(r)[k].stmt <= idx[r]
        /\ Len(out[r]) = Cardinality(At(r, "yield"))
        /\ request[r] = Replay(request0[r], Ev(r))

\* The consumer took the one item of the first statement and dropped the
\* stream: the assignment that follows never ran.
C8_Witness ==
    /\ Len(plan["r1"]) = 2
    /\ Kind("r1", 1) = "StmtWithParams"
    /\ Kind("r1", 2) = "SetVariable"
    /\ dropped["r1"]
    /\ Len(out["r1"]) = 1
    /\ idx["r1"] = 1
    /\ At("r1", "release") # {}
    /\ request["r1"] = request0["r1"]

(* ------------------------------ C9 ------------------------------------- *)

\* C9: when the query of SetVariable statement i fails to bind or fails on the
\* backend, the run ends at i with exactly one Error item, its last; the
\* statement assigns nothing, so that both maps are what the assignments of
\* the earlier statements made them; and a plan of that one statement yields
\* the Error alone.
C9_FailedAssignmentIsFatal ==
    \A r \in active : \A i \in Stmts(r) :
        (Kind(r, i) = "SetVariable" /\ (FailedAt(r, i, "bind") \/ FailedAt(r, i, "exec"))) =>
            /\ EndsAt(r, i)
            /\ \A k \in At(r, "set") : Ev(r)[k].stmt < i
            /\ request[r] = Replay(request0[r], Ev(r))
            /\ i = 1 => request[r] = request0[r]
            /\ Len(plan[r]) = 1 => (Len(out[r]) = 1 /\ out[r][1].item.type = "Error")

\* plan = [SetVariable(GET x, failing query)] has yielded its Error and ended,
\* with x left as it was.
C9_Witness ==
    /\ plan["r1"] = <<SetVariable(Get("x"), <<>>)>>
    /\ FailedAt("r1", 1, "exec")
    /\ pc["r1"] = "done"
    /\ "x" \in DOMAIN request["r1"].get_variables
    /\ Len(out["r1"]) = 1

(* ------------------------------ C10 ------------------------------------ *)

\* C10: when CsvImport statement i fails, at the pool or in run_csv_import, the
\* run ends at i with exactly one Error item, its last, and the import is not
\* attempted without a connection.
C10_FailedImportIsFatal ==
    \A r \in active : \A i \in Stmts(r) :
        (Kind(r, i) = "CsvImport" /\ (FailedAt(r, i, "acquire") \/ FailedAt(r, i, "import"))) =>
            /\ EndsAt(r, i)
            /\ FailedAt(r, i, "acquire") =>
                   \A k \in At(r, "import") : Ev(r)[k].stmt # i

\* The import failed; the static select after it was never reached.
C10_Witness ==
    /\ Len(plan["r1"]) = 2
    /\ Kind("r1", 1) = "CsvImport"
    /\ Kind("r1", 2) = "StaticSimpleSelect"
    /\ FailedAt("r1", 1, "import")
    /\ pc["r1"] = "done"
    /\ Len(out["r1"]) = 1

(* ------------------------------ C11 ------------------------------------ *)

\* The yields of r that carry an Error item.
ErrorYields(r) == { y \in At(r, "yield") : Ev(r)[y].data = <<"Error">> }

\* What the Error yielded at y reports: the operation that failed right
\* before it, or "parse" when none did (a stored parse failure).
Cause(r, y) == IF y > 1 /\ ~Ev(r)[y - 1].ok THEN Ev(r)[y - 1].op ELSE "parse"

\* The failures of r: the operations that failed, and the stored parse
\* failures that the loop has reached.
Failures(r) == { k \in Pos(r) : Ev(r)[k].op # "yield" /\ ~Ev(r)[k].ok }
ParseFailures(r) == { i \in 1..idx[r] : Kind(r, i) = "Error" }

\* The Error yielded at y ends the run.
Final(r, y) ==
    /\ \A z \in At(r, "yield") : z <= y
    /\ ~Ev(r)[y].ok
    /\ pc[r] \in {"abort", "done"}
    /\ idx[r] = Ev(r)[y].stmt

\* C11 as stated: an Error item that another item follows reports a result
\* unit of a cursor (an Execution Error).
C11_OnlyExecutionErrorsContinue ==
    \A r \in active : \A y \in ErrorYields(r) :
        (\E z \in At(r, "yield") : z > y) => Cause(r, y) = "unit"

\* C11, amended: an Error item that another item follows reports a result
\* unit of a cursor or a stored parse failure; the Error of any other failure
\* (acquisition, binding, import, the query of an assignment, the target of an
\* assignment) is the last item and ends the run; every failure is followed at
\* once by the yield of its own Error item, and the output holds as many Error
\* items as there were failures.
C11_FatalErrorsAreFinal ==
    \A r \in active :
        /\ \A y \in ErrorYields(r) :
               /\ Cause(r, y) = "parse" => Kind(r, Ev(r)[y].stmt) = "Error"
               /\ Cause(r, y) \in {"unit", "parse"} => Ev(r)[y].ok
               /\ Cause(r, y) \notin {"unit", "parse"} => Final(r, y)
               /\ (\E z \in At(r, "yield") : z > y) => Cause(r, y) \in {"unit", "parse"}
        /\ \A k \in Failures(r) :
               /\ k + 1 \in ErrorYields(r)
               /\ Ev(r)[k + 1].stmt = Ev(r)[k].stmt
        /\ Cardinality({ k \in Items(r) : out[r][k].item.type = "Error" })
               = Cardinality(Failures(r)) + Cardinality(ParseFailures(r))
        /\ Cardinality(ErrorYields(r))
               = Cardinality(Failures(r)) + Cardinality(ParseFailures(r))

\* A stored parse failure was reported, and then the assignment after it was
\* refused its target: two Error items, the second one final.
C11_Witness ==
    /\ Len(plan["r1"]) = 2
    /\ Kind("r1", 1) = "Error"
    /\ FailedAt("r1", 2, "scope")
    /\ Len(out["r1"]) = 2
    /\ out["r1"][1].item.type = "Error"
    /\ out["r1"][2].item.type = "Error"
    /\ pc["r1"] = "done"

(* ------------------------------ C12 ------------------------------------ *)

\* C12: a stored parse failure that the loop has reached has exactly one item
\* in the output, an Error, with the items of the statements before it in
\* front of it and those of the statements after it behind it; its yield is
\* no abort: the generator is back at the head of the loop, it returns right
\* after this statement only when the statement is the last of the plan, and
\* a run that ends without any abort has entered every statement after it.
C12_ParseFailureDoesNotHalt ==
    \A r \in active : \A i \in 1..idx[r] :
        Kind(r, i) = "Error" =>
            /\ Cardinality(ItemsOf(r, i)) = 1
            /\ ErrorsOf(r, i) = ItemsOf(r, i)
            /\ \A k \in ItemsOf(r, i) : \A l \in Items(r) :
                   /\ l < k => out[r][l].stmt < i
                   /\ l > k => out[r][l].stmt > i
            /\ \A y \in At(r, "yield") : Ev(r)[y].stmt = i => Ev(r)[y].ok
            /\ idx[r] = i => pc[r] \in {"loop", "done"}
            /\ (idx[r] = i /\ pc[r] = "done") => i = Len(plan[r])
            /\ (pc[r] = "done" /\ ~Aborted(r)) =>
                   \A j \in Stmts(r) : j > i => Entered(r, j)

\* The parse failure of the first statement was reported, and the query after
\* it streamed its rows to the end.
C12_Witness ==
    /\ Len(plan["r1"]) = 2
    /\ Kind("r1", 1) = "Error"
    /\ Kind("r1", 2) = "StmtWithParams"
    /\ Len(out["r1"]) = 4
    /\ out["r1"][1].item.type = "Error"
    /\ out["r1"][4].item.type = "FinishedQuery"
    /\ pc["r1"] = "done"

(* ------------------------------ C13 ------------------------------------ *)

\* The SetVariable statements of r whose target is no reference of ps and
\* whose inner query has returned without error.
FetchedFor(r, ps) ==
    { i \in 1..idx[r] :
        /\ Kind(r, i) = "SetVariable"
        /\ plan[r][i].variable.p \notin ps
        /\ \E k \in At(r, "exec") : Ev(r)[k].stmt = i /\ Ev(r)[k].ok }

\* The assignment of statement i is refused: the scope check fails right after
\* the inner query, the run ends at i with the Error as its last item, no
\* assignment of i is ever made, and the maps are what the assignments of the
\* statements before i made of the request.
Refused(r, i) ==
    /\ \E k \in At(r, "scope") :
           /\ Ev(r)[k].stmt = i /\ ~Ev(r)[k].ok
           /\ Ev(r)[k - 1].op = "exec" /\ Ev(r)[k - 1].stmt = i
           /\ request[r] = Replay(request0[r], SubSeq(Ev(r), 1, k - 1))
    /\ \A k \in At(r, "set") : Ev(r)[k].stmt # i
    /\ EndsAt(r, i)
    /\ out[r][Len(out[r])].item.type = "Error"

\* C13 as stated: every target other than a Get or a Post reference, a
\* GetOrPost reference included, is refused.
C13_OnlyGetAndPostTargets ==
    \A r \in active : \A i \in FetchedFor(r, {"Get", "Post"}) : Refused(r, i)

\* C13: every target other than a Get, a GetOrPost or a Post reference is
\* refused with a scope error that ends the run and leaves both maps as they
\* were; a GetOrPost target is accepted and is assigned in get_variables,
\* leaving post_variables as it was.
C13_OtherTargetsAreRefused ==
    \A r \in active :
        /\ \A i \in FetchedFor(r, {"Get", "GetOrPost", "Post"}) : Refused(r, i)
        /\ \A i \in FetchedFor(r, {"Get", "Post"}) \ FetchedFor(r, {"Get", "GetOrPost", "Post"}) :
               /\ ~FailedAt(r, i, "scope")
               /\ \E k \in At(r, "set") :
                      /\ Ev(r)[k].stmt = i
                      /\ Ev(r)[k - 1].op = "exec"
                      /\ Ev(r)[k].data[1] = "get_variables"
                      /\ Ev(r)[k].data[2] = plan[r][i].variable.name
                      /\ Replay(request0[r], SubSeq(Ev(r), 1, k)).post_variables =
                             Replay(request0[r], SubSeq(Ev(r), 1, k - 1)).post_variables

\* An assignment to a GetOrPost reference replaced the GET variable x, then an
\* assignment to a cookie was refused and the run ended with its Error.
C13_Witness ==
    /\ plan["r1"] = <<SetVariable(GetOrPost("x"), <<>>), SetVariable(Cookie("x"), <<>>)>>
    /\ request0["r1"].get_variables = [n \in {"x"} |-> Vec("a,b")]
    /\ request["r1"].get_variables = [n \in {"x"} |-> Single("a")]
    /\ FailedAt("r1", 2, "scope")
    /\ Len(out["r1"]) = 1
    /\ pc["r1"] = "done"

(* ------------------------------ C14 ------------------------------------ *)

\* The 1-based index of the parameter whose extraction fails when the
\* collaborator fails: the first one that calls it.
FailingIndex(stmt) ==
    CHOOSE k \in 1..Len(stmt.params) :
        /\ stmt.params[k].p = "Func"
        /\ \A m \in 1..(k - 1) : stmt.params[m].p # "Func"

\* C14 as stated: the Error item of a failed binding identifies the index of
\* the failing parameter, that is, no statement whose binding fails at another
\* index, for the same cause, gives the same error value.
C14_BindingErrorIdentifiesIndex ==
    \A r \in active : \A i \in Stmts(r) :
        FailedAt(r, i, "bind") =>
            \A e \in ErrorsOf(r, i) : \A s \in Statements :
                (CanFail(s) /\ FailingIndex(s) # FailingIndex(plan[r][i])) =>
                    bind_parameters(s, request[r], TRUE).err # out[r][e].item.chain

(* ------------------------------ C15 ------------------------------------ *)

Yielding == {"StmtWithParams", "StaticSimpleSelect", "Error"}

\* C15: a SetVariable statement never has a Row or a FinishedQuery item: it
\* has no item at all once its assignment is made, and exactly one Error when
\* it fails; its inner query is run once, hands over at most one row and opens
\* no cursor; so every item of a run with no abort belongs to a StmtWithParams,
\* a StaticSimpleSelect or a stored parse failure.
C15_AssignmentYieldsNothing ==
    \A r \in active :
        /\ \A i \in Stmts(r) :
               Kind(r, i) = "SetVariable" =>
                   /\ ItemsOf(r, i) = ErrorsOf(r, i)
                   /\ Cardinality(ItemsOf(r, i)) <= 1
                   /\ (\E k \in At(r, "set") : Ev(r)[k].stmt = i) => ItemsOf(r, i) = {}
                   /\ ItemsOf(r, i) # {} =>
                          \E k \in Pos(r) : Ev(r)[k].stmt = i /\ ~Ev(r)[k].ok
                   /\ \A k \in At(r, "unit") : Ev(r)[k].stmt # i
                   /\ \A k \in At(r, "exec") :
                          Ev(r)[k].stmt = i =>
                              /\ Len(Ev(r)[k].data) = 2
                              /\ Ev(r)[k].data[1] \in {Some, None}
                   /\ idx[r] = i => stream[r] = <<>>
        /\ ~Aborted(r) => \A k \in Items(r) : Kind(r, out[r][k].stmt) \in Yielding

\* An assignment fetched a row and set the variable; the static select after
\* it yielded the only item of the run.
C15_Witness ==
    /\ plan["r1"] = <<SetVariable(Get("x"), <<>>), StaticSimpleSelect>>
    /\ \E k \in At("r1", "set") : Ev("r1")[k].stmt = 1 /\ Ev("r1")[k].data[3] = "a"
    /\ Len(out["r1"]) = 1
    /\ out["r1"][1].stmt = 2
    /\ pc["r1"] = "done"

(* ------------------------------ C16 ------------------------------------ *)

\* The leases r holds according to its own history.
Leases(r) == Cardinality(Acquired(r)) - Cardinality(At(r, "release"))

\* C16: with every run in flight on the one pool, each run holds at most one
\* lease, and holds one exactly when its own history says so; the leases held
\* never exceed the size of the pool, which lends exactly the rest; a run that
\* the pool refused holds nothing and ends at the refused statement with one
\* Error, whose outermost message gives the size of the pool and its kind over
\* the error of the pool; and the variables of a run are what its own
\* assignments made of its own request.
C16_PoolBoundsConcurrentRuns ==
    /\ idle \in 0..PoolSize
    /\ Cardinality({ r \in Runs : connection_opt[r] = Some }) = PoolSize - idle
    /\ \A r \in active :
        /\ Leases(r) \in {0, 1}
        /\ connection_opt[r] = Some <=> Leases(r) = 1
        /\ \A i \in Stmts(r) :
               FailedAt(r, i, "acquire") =>
                   /\ connection_opt[r] = None
                   /\ Acquired(r) = {}
                   /\ EndsAt(r, i)
                   /\ out[r][Len(out[r])].item =
                          Error(<<AcquireError, "pool error">>)
        /\ request[r] = Replay(request0[r], Ev(r))

\* The pool is lent out to r1, which has assigned its variable and is at work
\* on its next statement, while r2 was refused and has ended with its Error.
C16_Witness ==
    /\ active = Runs
    /\ connection_opt["r1"] = Some
    /\ At("r1", "set") # {}
    /\ request["r1"] # request0["r1"]
    /\ pc["r1"] = "csv_import"
    /\ FailedAt("r2", 1, "acquire")
    /\ Len(out["r2"]) = 1
    /\ request["r2"] = request0["r2"]
    /\ pc["r2"] = "done"
    /\ idle = PoolSize - 1

(* ------------------------------ C17 ------------------------------------ *)

\* The stream of r has ended, by itself or by the consumer dropping it, and
\* its connection is back in the pool.
Over(r) == Ended(r) /\ connection_opt[r] = None /\ idle = PoolSize

\* C17: with a consumer that keeps polling and awaits that complete, the run
\* of r1 comes to its end, at the latest when the plan is exhausted or a "?"
\* has yielded its Err, and stays there with its connection back in the pool;
\* a stream that has ended is never polled again and yields nothing more; and
\* the loop only moves forward in the plan, one statement at a time.
C17_RunTerminates ==
    /\ <>[]Over("r1")
    /\ [](~dropped["r1"]) => <>(pc["r1"] = "done")
    /\ [][ /\ Ended("r1") =>
                /\ out' = out /\ pc' = pc /\ idx' = idx
                /\ ~pulling'["r1"]
                /\ connection_opt' = connection_opt /\ idle' = idle
           /\ idx'["r1"] \in {idx["r1"], idx["r1"] + 1} ]_vars

\* The stream ended by itself after a query streamed its rows on a connection
\* and the next statement aborted the run; the connection is back in the pool.
C17_Witness ==
    /\ Len(plan["r1"]) = 2
    /\ Kind("r1", 1) = "StmtWithParams"
    /\ Cardinality(ItemsOf("r1", 1)) = 3
    /\ Aborted("r1")
    /\ out["r1"][Len(out["r1"])].stmt = 2
    /\ pc["r1"] = "done"
    /\ ~dropped["r1"]
    /\ At("r1", "release") # {}
    /\ Over("r1")

(* ------------------------------ C18 ------------------------------------ *)

\* The number of units of us that the loop consumes: all of them, or those up
\* to the first error, the error included.
Consumed(us) ==
    IF \E j \in 1..Len(us) : us[j] = "err"
    THEN CHOOSE j \in 1..Len(us) : us[j] = "err" /\ \A m \in 1..(j - 1) : us[m] # "err"
    ELSE Len(us)

\* The type of the item that stands for a unit.
ItemType(u) ==
    CASE u = "row" -> "Row"
      [] u = "done" -> "FinishedQuery"
      [] u = "err" -> "Error"

\* The loop has left statement i of r.
Left(r, i) == idx[r] > i \/ pc[r] \in {"loop", "done"}

\* C18: for a StmtWithParams statement whose cursor returns the units us, the
\* items of the statement are, in order, the items that stand for the first
\* units of us, one for each unit consumed so far: a Row with the row of the
\* unit, a FinishedQuery or an Error; no unit behind the first error is
\* consumed; and once the loop has left the statement, its items stand for
\* all of us, or for us up to its first error.
C18_UnitsMappedInOrder ==
    \A r \in active : \A k \in At(r, "exec") :
        LET i == Ev(r)[k].stmt
            us == Ev(r)[k].data
            lo == Cardinality({ l \in Items(r) : out[r][l].stmt < i })
            n == Cardinality(ItemsOf(r, i))
        IN  Kind(r, i) = "StmtWithParams" =>
                /\ n <= Consumed(us)
                /\ n = Cardinality({ l \in At(r, "unit") : Ev(r)[l].stmt = i })
                /\ \A m \in 1..n :
                       /\ out[r][lo + m].stmt = i
                       /\ out[r][lo + m].item.type = ItemType(us[m])
                       /\ us[m] = "row" => out[r][lo + m].item.val = ToString(m)
                /\ Left(r, i) => n = Consumed(us)

\* A cursor returned a row, an error and a completion: the statement has
\* yielded a Row and an Error and nothing for the completion, and the static
\* select after it has yielded its row.
C18_Witness ==
    /\ Len(plan["r1"]) = 2
    /\ Kind("r1", 1) = "StmtWithParams"
    /\ \E k \in At("r1", "exec") :
           Ev("r1")[k].stmt = 1 /\ Ev("r1")[k].data = <<"row", "err", "done">>
    /\ Len(out["r1"]) = 3
    /\ out["r1"][1].item.type = "Row"
    /\ out["r1"][2].item.type = "Error"
    /\ out["r1"][3].stmt = 2
    /\ pc["r1"] = "done"

(* ------------------------------ C19 ------------------------------------ *)

\* C19: the Error item of a stored parse error holds the causes of the stored
\* error, each once and in the order of the stored chain, outermost first,
\* and behind them the one headline, as its root cause; and two runs of the
\* same file yield equal items for the same statement, the stored error being
\* read and never changed.
C19_CloneKeepsChain ==
    /\ \A r \in active : \A k \in Items(r) :
           LET c == plan[r][out[r][k].stmt].err
               e == out[r][k].item.chain
           IN  /\ out[r][k].item.type = "Error"
               /\ Len(e) = Len(c) + 1
               /\ \A m \in 1..Len(c) : e[m] = c[m]
               /\ e[Len(e)] = "SQLPage could not parse and prepare this SQL statement"
    /\ \A r, q \in active :
           /\ plan[r] = plan[q]
           /\ \A k \in Items(r) \cap Items(q) : out[r][k] = out[q][k]

\* The file whose two statements failed with the chains a, b and b, a has been
\* run to its end twice.
C19_Witness ==
    /\ plan["r1"] = <<ParseError(<<"a", "b">>), ParseError(<<"b", "a">>)>>
    /\ \A r \in Runs :
           /\ Len(out[r]) = 2
           /\ out[r][1].item.chain =
                  <<"a", "b", "SQLPage could not parse and prepare this SQL statement">>
           /\ out[r][2].item.chain =
                  <<"b", "a", "SQLPage could not parse and prepare this SQL statement">>
           /\ pc[r] = "done"

(* ------------------------------ C20 ------------------------------------ *)

\* The operations of statement i in the history of r, yields left out.
OpsOf(r, i) == SelectSeq(Ev(r), LAMBDA e : e.stmt = i /\ e.op # "yield")

\* The place of an operation among the steps of a statement.
StepOf(op) ==
    CASE op = "bind" -> 1
      [] op \in {"acquire", "reuse"} -> 2
      [] op = "exec" -> 3
      [] OTHER -> 4

\* The first steps of statement i were taken one after the other in the fixed
\* order, each after the one before it succeeded.
InStepOrder(r, i) ==
    LET ops == OpsOf(r, i)
    IN  \A m \in 1..Len(ops) :
            /\ m <= 4 => StepOf(ops[m].op) = m
            /\ m > 4 => ops[m].op = "unit"
            /\ m < Len(ops) => ops[m].ok \/ ops[m].op = "unit"

\* C20: a SetVariable statement binds its parameters, then takes the
\* connection, then sends its inner query, and only then validates its target
\* or assigns; so when the target is refused the connection has been taken and
\* the inner query has returned from the backend.  A StmtWithParams statement
\* likewise binds, takes the connection, sends its query and reads its cursor;
\* so when the binding of the first statement to need the database fails, the
\* run has never called the pool and holds no connection.
C20_StepsInFixedOrder ==
    \A r \in active : \A i \in Stmts(r) :
        /\ Kind(r, i) = "SetVariable" =>
               /\ InStepOrder(r, i)
               /\ Len(OpsOf(r, i)) <= 4
               /\ \A m \in 1..Len(OpsOf(r, i)) :
                      m = 4 => OpsOf(r, i)[m].op \in {"scope", "set"}
               /\ FailedAt(r, i, "scope") =>
                      /\ Len(OpsOf(r, i)) = 4
                      /\ OpsOf(r, i)[2].ok /\ OpsOf(r, i)[3].ok
                      /\ Acquired(r) # {}
        /\ Kind(r, i) = "StmtWithParams" =>
               /\ InStepOrder(r, i)
               /\ (FailedAt(r, i, "bind") /\
                   \A j \in 1..(i - 1) : Kind(r, j) \in NoDatabase) =>
                      /\ At(r, "acquire") = {}
                      /\ connection_opt[r] = None
                      /\ idle = PoolSize

\* The first statement assigns to a cookie: it took the connection, its inner
\* query returned a row, and then the target was refused and the run ended,
\* returning the connection.
C20_Witness ==
    /\ Len(plan["r1"]) = 1
    /\ Kind("r1", 1) = "SetVariable"
    /\ plan["r1"][1].variable.p = "Cookie"
    /\ Len(OpsOf("r1", 1)) = 4
    /\ OpsOf("r1", 1)[2].op = "acquire"
    /\ OpsOf("r1", 1)[3].data[1] = Some
    /\ FailedAt("r1", 1, "scope")
    /\ At("r1", "release") # {}
    /\ pc["r1"] = "done"

====
